---- MODULE Spec2Model ----
(***************************************************************************)
(* Headless CMS on a Convex document store: session authentication, role   *)
(* gates, page lifecycle, block structure, API keys and the audit log.     *)
(*                                                                         *)
(* Every exported mutation is one action: a Convex mutation runs as one    *)
(* transaction, so a handler that throws leaves the store as it was and    *)
(* only its outcome (the variable last) is observed.                       *)
(* SpecRace alone takes pages.create step by step, from one access to the *)
(* store to the next, for two invocations held in the variable calls.      *)
(*                                                                         *)
(* Strings the handlers compute on (emails, passwords, secrets, slugs,     *)
(* text bodies) are tuples of characters; documents are records; a table   *)
(* is a function from the ids of its documents to the documents.           *)
(***************************************************************************)
EXTENDS Integers, Sequences, FiniteSets, TLC

VARIABLES users, workspaces, sessions, pages, blocks, globalSections, apiKeys,
          auditLog, nextId, now, last, hist, calls

vars == <<users, workspaces, sessions, pages, blocks, globalSections, apiKeys,
          auditLog, nextId, now, last, hist, calls>>

store == <<users, workspaces, sessions, pages, blocks, globalSections, apiKeys, auditLog>>

(***************************************************************************)
(* Bounds of the model.                                                    *)
(***************************************************************************)
\* audited mutations that succeed in one behaviour (length of the audit log)
MaxAudit == 2
\* accounts register creates in one behaviour
MaxUsers == 2
\* session tokens generateToken issues in one behaviour
MaxTokens == 3
\* steps of the clock in one behaviour, and the days in one step
MaxTicks == 2
TickDays == 4
MaxKeys == 2

(***************************************************************************)
(* Absent values.  An optional number that is undefined is Undefined, an   *)
(* optional or missing document id is NoId, the empty string given as a    *)
(* token is NoToken (generateToken never returns it).                      *)
(***************************************************************************)
Undefined == -1
NoId == 0
NoToken == 0

\* the outcome of a handler that returned normally
OK == "ok"

(***************************************************************************)
(* Messages of the errors the handlers throw.                              *)
(***************************************************************************)
ErrAuthRequired == "Authentication required"
ErrInvalidSession == "Invalid session token"
ErrSessionExpired == "Session expired, please log in again"
ErrInactive == "User account is inactive or not found"
ErrAdminRequired == "Admin access required for this operation"
ErrEditorRequired == "Editor access required for this operation"
ErrWorkspace == "Workspace not found"
ErrEmailExists == "An account with this email already exists"
ErrUserExists == "A user with this email already exists"
ErrCredentials == "Invalid email or password"
ErrDeactivated == "Account is deactivated"
ErrUserNotFound == "User not found"
ErrSelf == "Cannot deactivate yourself"
ErrPageNotFound == "Page not found"
ErrBlockNotFound == "Block not found"
ErrSlugExists == "A page with this slug already exists"
ErrSlugTaken == "Slug is already taken"
ErrSlugFormat == "Slug must be lowercase letters, numbers, and hyphens only"
ErrSlugAdmin == "Only admins can change page slugs"
ErrTypeAdmin == "Only admins can change block types"
ErrTooLong == "Text exceeds maximum length"
ErrKeyInvalid == "Invalid API key"
ErrKeyRevoked == "API key has been revoked"
ErrKeyExpired == "API key has expired"
ErrSecret == "Invalid API secret"
ErrPermission == "API key lacks permission"
ErrKeyNotFound == "API key not found"
ErrSectionNotFound == "Global section not found"
ErrSectionTypeAdmin == "Only admins can change section content types"
\* thrown by the store itself: patch or delete of a document that does not
\* exist, and unique() over more than one document
ErrStoreMissing == "Update or delete on nonexistent document"
ErrStoreUnique == "unique() returned more than one result"

(***************************************************************************)
(* The store primitives.                                                   *)
(***************************************************************************)
Exists(table, id) == id \in DOMAIN table

Insert(table, id, doc) == [i \in DOMAIN table \cup {id} |-> IF i = id THEN doc ELSE table[i]]

Delete(table, id) == [i \in DOMAIN table \ {id} |-> table[i]]

Range(s) == {s[i] : i \in DOMAIN s}

(***************************************************************************)
(* Strings are tuples of character codes.                                  *)
(***************************************************************************)
IsSpace(c) == c \in {9, 10, 13, 32}

RECURSIVE TrimStart(_)
TrimStart(s) == IF s # <<>> /\ IsSpace(Head(s)) THEN TrimStart(Tail(s)) ELSE s

RECURSIVE TrimEnd(_)
TrimEnd(s) == IF s # <<>> /\ IsSpace(s[Len(s)]) THEN TrimEnd(SubSeq(s, 1, Len(s) - 1)) ELSE s

Trim(s) == TrimEnd(TrimStart(s))

ToLowerCase(s) == [i \in DOMAIN s |-> IF s[i] \in 65..90 THEN s[i] + 32 ELSE s[i]]

\* args.email.trim().toLowerCase()
NormalizeEmail(email) == ToLowerCase(Trim(email))

Digit36(d) == IF d < 10 THEN 48 + d ELSE 87 + d

\* Number.prototype.toString(36) of a natural number
RECURSIVE ToString36(_)
ToString36(n) == IF n < 36 THEN <<Digit36(n)>> ELSE ToString36(n \div 36) \o <<Digit36(n % 36)>>

(***************************************************************************)
(* 32-bit arithmetic of the hash loops: hash = (31 * hash + char) wrapped  *)
(* to a signed 32-bit integer.  The accumulator is the pair of its high    *)
(* and low 16-bit words.                                                   *)
(***************************************************************************)
HashStep(w, char) == LET low == w[2] * 31 + char IN <<(w[1] * 31 + low \div 65536) % 65536, low % 65536>>

RECURSIVE HashLoop(_, _)
HashLoop(w, input) == IF input = <<>> THEN w ELSE HashLoop(HashStep(w, Head(input)), Tail(input))

ToInt32(w) == IF w[1] >= 32768 THEN (w[1] - 65536) * 65536 + w[2] ELSE w[1] * 65536 + w[2]

Abs(x) == IF x < 0 THEN 0 - x ELSE x

\* users: "h_" + Math.abs(hash).toString(36) + input.length.toString(36)
simpleHash(input) == <<104, 95>> \o ToString36(Abs(ToInt32(HashLoop(<<0, 0>>, input)))) \o ToString36(Len(input))

(***************************************************************************)
(* Time.  Date.now() is the variable now, in milliseconds.                 *)
(***************************************************************************)
DayMs == 86400000

\* Date.now() + 7 * 24 * 60 * 60 * 1000
SessionExpiry == now + 7 * DayMs

(***************************************************************************)
(* The outcome of the last call: the operation, its token, the id it       *)
(* targets, its other argument, the outcome (OK or the error thrown) and   *)
(* the value returned.                                                     *)
(***************************************************************************)
Call(op, token, target, arg, result, ret) ==
    [op |-> op, token |-> token, target |-> target, arg |-> arg, result |-> result, ret |-> ret]

Throw_noRollback(op, token, target, arg, err) ==
    /\ last' = Call(op, token, target, arg, err, NoId)
    /\ auditLog' = Append(auditLog, [userId |-> NoId, action |-> op, targetType |-> "", targetId |-> NoId,
                                      details |-> Undefined, timestamp |-> now])
    /\ UNCHANGED <<calls, globalSections, users, workspaces, sessions, pages, blocks, apiKeys, nextId, now, hist>>

\* a handler that throws: the transaction is rolled back
Throw(op, token, target, arg, err) ==
    /\ last' = Call(op, token, target, arg, err, NoId)
    /\ UNCHANGED <<calls, globalSections, users, workspaces, sessions, pages, blocks, apiKeys, auditLog, nextId, now, hist>>

\* two invocations of pages.create that run step by step: pc is where the
\* handler of the invocation stands
Invocations == 1..2

NoCall == [pc |-> "idle", token |-> NoToken, slug |-> <<>>, result |-> OK, ret |-> NoId]

NoCalls == [i \in Invocations |-> NoCall]

(***************************************************************************)
(* auth.ts                                                                 *)
(***************************************************************************)
\* the sessions that the index by_token holds for a token
SessionsByToken(token) == {s \in DOMAIN sessions : sessions[s].token = token}

authenticateUser_noExpiry(token) ==
    IF token = NoToken THEN [err |-> ErrAuthRequired]
    ELSE IF SessionsByToken(token) = {} THEN [err |-> ErrInvalidSession]
    ELSE IF Cardinality(SessionsByToken(token)) > 1 THEN [err |-> ErrStoreUnique]
    ELSE LET session == sessions[CHOOSE s \in SessionsByToken(token) : TRUE] IN
         IF ~Exists(users, session.userId) \/ ~users[session.userId].isActive
         THEN [err |-> ErrInactive]
         ELSE LET user == users[session.userId] IN
              [err |-> OK, id |-> session.userId, name |-> user.name,
               email |-> user.email, role |-> user.role]

\* The projection returned holds _id, name, email and role and nothing else:
\* a caller that reads workspaceId from it reads undefined.
authenticateUser(token) ==
    IF token = NoToken THEN [err |-> ErrAuthRequired]
    ELSE IF SessionsByToken(token) = {} THEN [err |-> ErrInvalidSession]
    ELSE IF Cardinality(SessionsByToken(token)) > 1 THEN [err |-> ErrStoreUnique]
    ELSE LET session == sessions[CHOOSE s \in SessionsByToken(token) : TRUE] IN
         IF session.expiresAt < now THEN [err |-> ErrSessionExpired]
         ELSE IF ~Exists(users, session.userId) \/ ~users[session.userId].isActive
         THEN [err |-> ErrInactive]
         ELSE LET user == users[session.userId] IN
              [err |-> OK, id |-> session.userId, name |-> user.name,
               email |-> user.email, role |-> user.role]

\* admin.workspaceId, read from the projection authenticateUser returns
WorkspaceIdOf(user) == IF "workspaceId" \in DOMAIN user THEN user.workspaceId ELSE NoId

requireAdmin_noRole(token) == authenticateUser(token)

requireAdmin(token) ==
    LET user == authenticateUser(token) IN
    IF user.err # OK THEN user
    ELSE IF user.role # "admin" THEN [err |-> ErrAdminRequired]
    ELSE user

requireEditor(token) ==
    LET user == authenticateUser(token) IN
    IF user.err # OK THEN user
    ELSE IF user.role # "admin" /\ user.role # "editor" THEN [err |-> ErrEditorRequired]
    ELSE user

\* the audit log holds MaxAudit records at most: an audited mutation is not
\* taken once it is full
CanLog == Len(auditLog) < MaxAudit

logAudit(userId, action, targetType, targetId, details) ==
    auditLog' = Append(auditLog, [userId |-> userId, action |-> action, targetType |-> targetType,
                                  targetId |-> targetId, details |-> details, timestamp |-> now])

(***************************************************************************)
(* users: register, login, me, createUser, toggleUserActive, logout        *)
(***************************************************************************)
\* Math.random() twice and Date.now(), in base 36: a token never issued before
generateToken == nextId.tokens

\* the users that the index by_email holds for an email
UsersByEmail_none(email) == {}

UsersByEmail(email) == {u \in DOMAIN users : users[u].email = email}

SessionsByUser_none(userId) == {}

SessionsByUser(userId) == {s \in DOMAIN sessions : sessions[s].userId = userId}

\* "'s Workspace"
WorkspaceSuffix == <<39, 115, 32, 87, 111, 114, 107, 115, 112, 97, 99, 101>>

register(name, email, password) ==
    LET normal == NormalizeEmail(email)
        userId == nextId.users
        workspaceId == nextId.workspaces
        token == generateToken
    IN
    IF Cardinality(UsersByEmail(normal)) > 1
    THEN Throw("register", NoToken, NoId, <<email, password>>, ErrStoreUnique)
    ELSE IF UsersByEmail(normal) # {}
    THEN Throw("register", NoToken, NoId, <<email, password>>, ErrEmailExists)
    ELSE /\ Cardinality(DOMAIN users) < MaxUsers
         /\ nextId.tokens <= MaxTokens
         /\ users' = Insert(users, userId,
                [name |-> Trim(name), email |-> normal, passwordHash |-> simpleHash(password),
                 role |-> "admin", isActive |-> TRUE, workspaceId |-> workspaceId,
                 lastLoginAt |-> Undefined])
         /\ workspaces' = Insert(workspaces, workspaceId,
                [name |-> Trim(name) \o WorkspaceSuffix, ownerId |-> userId, createdAt |-> now])
         /\ sessions' = Insert(sessions, nextId.sessions,
                [userId |-> userId, token |-> token, expiresAt |-> SessionExpiry])
         /\ nextId' = [nextId EXCEPT !.users = @ + 1, !.workspaces = @ + 1,
                                     !.sessions = @ + 1, !.tokens = @ + 1]
         /\ last' = Call("register", NoToken, userId, <<email, password>>, OK,
                         [token |-> token, workspaceId |-> workspaceId, id |-> userId])
         /\ hist' = [hist EXCEPT !.registered = @ \cup {email}]
         /\ UNCHANGED <<calls, globalSections, pages, blocks, apiKeys, auditLog, now>>

\* the checks of login on the user that the index by_email holds for an email
loginCheck(normal, password) ==
    IF Cardinality(UsersByEmail(normal)) > 1 THEN [err |-> ErrStoreUnique, id |-> NoId]
    ELSE IF UsersByEmail(normal) = {} THEN [err |-> ErrCredentials, id |-> NoId]
    ELSE LET userId == CHOOSE u \in UsersByEmail(normal) : TRUE IN
         IF ~users[userId].isActive THEN [err |-> ErrDeactivated, id |-> userId]
         ELSE IF users[userId].passwordHash # simpleHash(password) THEN [err |-> ErrCredentials, id |-> userId]
         ELSE [err |-> OK, id |-> userId]

LoginOutcome_rawEmail(email, password) == loginCheck(email, password)

\* const email = args.email.trim().toLowerCase(), and the checks on its user
LoginOutcome(email, password) == loginCheck(NormalizeEmail(email), password)

login(email, password) ==
    LET user == LoginOutcome(email, password)
        token == generateToken
    IN
    IF user.err # OK THEN Throw("login", NoToken, user.id, <<email, password>>, user.err)
    ELSE /\ nextId.tokens <= MaxTokens
         /\ sessions' = Insert([s \in DOMAIN sessions \ SessionsByUser(user.id) |-> sessions[s]],
                nextId.sessions,
                [userId |-> user.id, token |-> token, expiresAt |-> SessionExpiry])
         /\ users' = [users EXCEPT ![user.id].lastLoginAt = now]
         /\ nextId' = [nextId EXCEPT !.sessions = @ + 1, !.tokens = @ + 1]
         /\ last' = Call("login", NoToken, user.id, <<email, password>>, OK,
                         [token |-> token, workspaceId |-> users[user.id].workspaceId, id |-> user.id])
         /\ UNCHANGED <<calls, globalSections, workspaces, pages, blocks, apiKeys, auditLog, now, hist>>

\* a query: null when there is no token or authenticateUser throws
me(token) ==
    /\ last' = Call("me", token, NoId, NoId,
                    IF token = NoToken \/ authenticateUser(token).err # OK THEN "null" ELSE OK,
                    NoId)
    /\ UNCHANGED <<calls, globalSections, users, workspaces, sessions, pages, blocks, apiKeys, auditLog, nextId, now, hist>>

createUser(token, name, email, password, role) ==
    LET admin == requireAdmin(token) IN
    IF admin.err # OK THEN Throw("createUser", token, NoId, <<email, password>>, admin.err)
    ELSE IF WorkspaceIdOf(admin) = NoId
    THEN Throw("createUser", token, NoId, <<email, password>>, ErrWorkspace)
    ELSE IF Cardinality(UsersByEmail(email)) > 1
    THEN Throw("createUser", token, NoId, <<email, password>>, ErrStoreUnique)
    ELSE IF UsersByEmail(email) # {}
    THEN Throw("createUser", token, NoId, <<email, password>>, ErrUserExists)
    ELSE /\ CanLog
         /\ Cardinality(DOMAIN users) < MaxUsers
         /\ users' = Insert(users, nextId.users,
                [name |-> name, email |-> NormalizeEmail(email),
                 passwordHash |-> simpleHash(password), role |-> role, isActive |-> TRUE,
                 workspaceId |-> WorkspaceIdOf(admin), lastLoginAt |-> Undefined])
         /\ nextId' = [nextId EXCEPT !.users = @ + 1]
         /\ logAudit(admin.id, "user.create", "user", nextId.users, role)
         /\ last' = Call("createUser", token, nextId.users, <<email, password>>, OK, nextId.users)
         /\ UNCHANGED <<calls, globalSections, workspaces, sessions, pages, blocks, apiKeys, now, hist>>

toggleUserActive(token, userId) ==
    LET admin == requireAdmin(token) IN
    IF admin.err # OK THEN Throw("toggleUserActive", token, userId, NoId, admin.err)
    ELSE IF ~Exists(users, userId)
    THEN Throw("toggleUserActive", token, userId, NoId, ErrUserNotFound)
    ELSE IF userId = admin.id
    THEN Throw("toggleUserActive", token, userId, NoId, ErrSelf)
    ELSE /\ CanLog
         /\ users' = [users EXCEPT ![userId].isActive = ~users[userId].isActive]
         /\ logAudit(admin.id, "user.toggle_active", "user", userId, ~users[userId].isActive)
         /\ last' = Call("toggleUserActive", token, userId, NoId, OK, NoId)
         /\ UNCHANGED <<calls, globalSections, workspaces, sessions, pages, blocks, apiKeys, nextId, now, hist>>

\* the tokens generateToken has issued
Issued == 1..(nextId.tokens - 1)

logout_keepSession(token) ==
    /\ last' = Call("logout", token, NoId, NoId, OK, NoId)
    /\ hist' = [hist EXCEPT !.loggedOut = @ \cup ({token} \cap Issued)]
    /\ UNCHANGED <<calls, globalSections, users, workspaces, sessions, pages, blocks, apiKeys, auditLog, nextId, now>>

logout(token) ==
    IF Cardinality(SessionsByToken(token)) > 1
    THEN Throw("logout", token, NoId, NoId, ErrStoreUnique)
    ELSE /\ sessions' = [s \in DOMAIN sessions \ SessionsByToken(token) |-> sessions[s]]
         /\ last' = Call("logout", token, NoId, NoId, OK, NoId)
         /\ hist' = [hist EXCEPT !.loggedOut = @ \cup ({token} \cap Issued)]
         /\ UNCHANGED <<calls, globalSections, users, workspaces, pages, blocks, apiKeys, auditLog, nextId, now>>

\* the clock moves between two calls
Tick ==
    /\ now < DayMs + MaxTicks * TickDays * DayMs
    /\ now' = now + TickDays * DayMs
    /\ last' = Call("tick", NoToken, NoId, NoId, OK, NoId)
    /\ UNCHANGED <<calls, globalSections, users, workspaces, sessions, pages, blocks, apiKeys, auditLog, nextId, hist>>

(***************************************************************************)
(* pages.ts.  A page document holds workspaceId, title, slug, status,      *)
(* blockOrder, publishedAt, createdBy and updatedBy (description, seo and  *)
(* the header and footer overrides are left out: no handler branches on    *)
(* them).                                                                  *)
(***************************************************************************)
\* an optional string argument that is not given
NoString == <<Undefined>>

IsAlnum(c) == c \in 97..122 \/ c \in 48..57

\* /^[a-z0-9]+(?:-[a-z0-9]+)*$/.test(slug)
SlugFormatOk(slug) ==
    /\ slug # <<>>
    /\ \A i \in DOMAIN slug :
          \/ IsAlnum(slug[i])
          \/ /\ slug[i] = 45
             /\ i > 1 /\ i < Len(slug)
             /\ IsAlnum(slug[i - 1]) /\ IsAlnum(slug[i + 1])

\* the pages that the index by_slug holds for a slug, in every workspace
PagesBySlug(slug) == {p \in DOMAIN pages : pages[p].slug = slug}

\* blocks.filter(Boolean) of the blocks of blockOrder, in order
RECURSIVE Hydrate(_)
Hydrate(order) ==
    IF order = <<>> THEN <<>>
    ELSE (IF Exists(blocks, Head(order)) THEN <<blocks[Head(order)]>> ELSE <<>>) \o Hydrate(Tail(order))

\* the public query: page is NoId when it returns null
getBySlug(slug) ==
    IF Cardinality(PagesBySlug(slug)) > 1 THEN [err |-> ErrStoreUnique]
    ELSE IF PagesBySlug(slug) = {} THEN [err |-> OK, page |-> NoId]
    ELSE LET pageId == CHOOSE p \in PagesBySlug(slug) : TRUE IN
         IF pages[pageId].status # "published" THEN [err |-> OK, page |-> NoId]
         ELSE [err |-> OK, page |-> pageId, slug |-> pages[pageId].slug, title |-> pages[pageId].title,
               blocks |-> Hydrate(pages[pageId].blockOrder), publishedAt |-> pages[pageId].publishedAt]

\* the public query: the ids of the pages of the index by_status under "published"
listPublished == {p \in DOMAIN pages : pages[p].status = "published"}

pages_create(token, title, slug) ==
    LET admin == requireAdmin(token) IN
    IF admin.err # OK THEN Throw("createPage", token, NoId, slug, admin.err)
    ELSE IF WorkspaceIdOf(admin) = NoId THEN Throw("createPage", token, NoId, slug, ErrWorkspace)
    ELSE IF Cardinality(PagesBySlug(slug)) > 1 THEN Throw("createPage", token, NoId, slug, ErrStoreUnique)
    ELSE IF PagesBySlug(slug) # {} THEN Throw("createPage", token, NoId, slug, ErrSlugExists)
    ELSE IF ~SlugFormatOk(slug) THEN Throw("createPage", token, NoId, slug, ErrSlugFormat)
    ELSE /\ CanLog
         /\ pages' = Insert(pages, nextId.pages,
                [workspaceId |-> WorkspaceIdOf(admin), title |-> title, slug |-> slug,
                 status |-> "draft", blockOrder |-> <<>>, publishedAt |-> Undefined,
                 createdBy |-> admin.id, updatedBy |-> NoId])
         /\ nextId' = [nextId EXCEPT !.pages = @ + 1]
         /\ logAudit(admin.id, "page.create", "page", nextId.pages, Undefined)
         /\ last' = Call("createPage", token, nextId.pages, slug, OK, nextId.pages)
         /\ UNCHANGED <<calls, globalSections, users, workspaces, sessions, blocks, apiKeys, now, hist>>

\* pages.create is called: the invocation stands before requireAdmin
create_start(i, token, slug) ==
    /\ calls[i].pc = "idle"
    /\ calls' = [calls EXCEPT ![i] = [NoCall EXCEPT !.pc = "auth", !.token = token, !.slug = slug]]
    /\ UNCHANGED <<users, workspaces, sessions, pages, blocks, globalSections, apiKeys,
                   auditLog, nextId, now, last, hist>>

\* an invocation that throws: it returns the error and has written nothing
create_throw(i, err) ==
    /\ calls' = [calls EXCEPT ![i].pc = "done", ![i].result = err]
    /\ UNCHANGED <<users, workspaces, sessions, pages, blocks, globalSections, apiKeys,
                   auditLog, nextId, now, last, hist>>

\* the next step of invocation i of pages.create, up to its next access to
\* the store: requireAdmin and the workspace of the caller; the lookup in
\* by_slug and the test of the format; the insert and the audit record
create_step(i) ==
    LET token == calls[i].token
        slug == calls[i].slug
        admin == requireAdmin(token)
    IN
    IF calls[i].pc = "auth"
    THEN IF admin.err # OK THEN create_throw(i, admin.err)
         ELSE IF WorkspaceIdOf(admin) = NoId THEN create_throw(i, ErrWorkspace)
         ELSE /\ calls' = [calls EXCEPT ![i].pc = "lookup"]
              /\ UNCHANGED <<users, workspaces, sessions, pages, blocks, globalSections, apiKeys,
                             auditLog, nextId, now, last, hist>>
    ELSE IF calls[i].pc = "lookup"
    THEN IF Cardinality(PagesBySlug(slug)) > 1 THEN create_throw(i, ErrStoreUnique)
         ELSE IF PagesBySlug(slug) # {} THEN create_throw(i, ErrSlugExists)
         ELSE IF ~SlugFormatOk(slug) THEN create_throw(i, ErrSlugFormat)
         ELSE /\ calls' = [calls EXCEPT ![i].pc = "insert"]
              /\ UNCHANGED <<users, workspaces, sessions, pages, blocks, globalSections, apiKeys,
                             auditLog, nextId, now, last, hist>>
    ELSE /\ calls[i].pc = "insert"
         /\ CanLog
         /\ pages' = Insert(pages, nextId.pages,
                [workspaceId |-> WorkspaceIdOf(admin), title |-> <<>>, slug |-> slug,
                 status |-> "draft", blockOrder |-> <<>>, publishedAt |-> Undefined,
                 createdBy |-> admin.id, updatedBy |-> NoId])
         /\ nextId' = [nextId EXCEPT !.pages = @ + 1]
         /\ logAudit(admin.id, "page.create", "page", nextId.pages, Undefined)
         /\ calls' = [calls EXCEPT ![i].pc = "done", ![i].result = OK, ![i].ret = nextId.pages]
         /\ UNCHANGED <<users, workspaces, sessions, blocks, globalSections, apiKeys, now, last, hist>>

\* the caller has the outcome of invocation i and may call again
create_return(i) ==
    /\ calls[i].pc = "done"
    /\ calls' = [calls EXCEPT ![i] = NoCall]
    /\ UNCHANGED <<users, workspaces, sessions, pages, blocks, globalSections, apiKeys,
                   auditLog, nextId, now, last, hist>>

updateMeta(token, pageId, title, slug) ==
    LET user == requireEditor(token) IN
    IF user.err # OK THEN Throw("updateMeta", token, pageId, slug, user.err)
    ELSE IF ~Exists(pages, pageId) THEN Throw("updateMeta", token, pageId, slug, ErrPageNotFound)
    ELSE IF slug # NoString /\ slug # <<>> /\ slug # pages[pageId].slug /\ user.role # "admin"
    THEN Throw("updateMeta", token, pageId, slug, ErrSlugAdmin)
    ELSE IF slug # NoString /\ slug # <<>> /\ slug # pages[pageId].slug /\ Cardinality(PagesBySlug(slug)) > 1
    THEN Throw("updateMeta", token, pageId, slug, ErrStoreUnique)
    ELSE IF slug # NoString /\ slug # <<>> /\ slug # pages[pageId].slug /\ PagesBySlug(slug) # {}
    THEN Throw("updateMeta", token, pageId, slug, ErrSlugTaken)
    ELSE /\ CanLog
         /\ pages' = [pages EXCEPT ![pageId] =
                [@ EXCEPT !.updatedBy = user.id,
                          !.title = IF title # NoString THEN title ELSE @,
                          !.slug = IF slug # NoString THEN slug ELSE @]]
         /\ logAudit(user.id, "page.update_meta", "page", pageId, Undefined)
         /\ last' = Call("updateMeta", token, pageId, slug, OK, NoId)
         /\ UNCHANGED <<calls, globalSections, users, workspaces, sessions, blocks, apiKeys, nextId, now, hist>>

publish(token, pageId) ==
    LET admin == requireAdmin(token) IN
    IF admin.err # OK THEN Throw("publish", token, pageId, NoId, admin.err)
    ELSE IF ~Exists(pages, pageId) THEN Throw("publish", token, pageId, NoId, ErrPageNotFound)
    ELSE /\ CanLog
         /\ pages' = [pages EXCEPT ![pageId] =
                [@ EXCEPT !.status = "published", !.publishedAt = now, !.updatedBy = admin.id]]
         /\ logAudit(admin.id, "page.publish", "page", pageId, Undefined)
         /\ last' = Call("publish", token, pageId, NoId, OK, NoId)
         /\ UNCHANGED <<calls, globalSections, users, workspaces, sessions, blocks, apiKeys, nextId, now, hist>>

unpublish(token, pageId) ==
    LET admin == requireAdmin(token) IN
    IF admin.err # OK THEN Throw("unpublish", token, pageId, NoId, admin.err)
    ELSE IF ~Exists(pages, pageId) THEN Throw("unpublish", token, pageId, NoId, ErrStoreMissing)
    ELSE /\ CanLog
         /\ pages' = [pages EXCEPT ![pageId] = [@ EXCEPT !.status = "draft", !.updatedBy = admin.id]]
         /\ logAudit(admin.id, "page.unpublish", "page", pageId, Undefined)
         /\ last' = Call("unpublish", token, pageId, NoId, OK, NoId)
         /\ UNCHANGED <<calls, globalSections, users, workspaces, sessions, blocks, apiKeys, nextId, now, hist>>

archive(token, pageId) ==
    LET admin == requireAdmin(token) IN
    IF admin.err # OK THEN Throw("archive", token, pageId, NoId, admin.err)
    ELSE IF ~Exists(pages, pageId) THEN Throw("archive", token, pageId, NoId, ErrStoreMissing)
    ELSE /\ CanLog
         /\ pages' = [pages EXCEPT ![pageId] = [@ EXCEPT !.status = "archived", !.updatedBy = admin.id]]
         /\ logAudit(admin.id, "page.archive", "page", pageId, Undefined)
         /\ last' = Call("archive", token, pageId, NoId, OK, NoId)
         /\ UNCHANGED <<calls, globalSections, users, workspaces, sessions, blocks, apiKeys, nextId, now, hist>>

\* ctx.db.delete of each id of blockOrder, in order: it throws at an id that
\* names no block, or one that an earlier iteration deleted
DeletableOrder(order) ==
    /\ \A i \in DOMAIN order : Exists(blocks, order[i])
    /\ \A i, j \in DOMAIN order : i # j => order[i] # order[j]

deletePage(token, pageId) ==
    LET admin == requireAdmin(token) IN
    IF admin.err # OK THEN Throw("deletePage", token, pageId, NoId, admin.err)
    ELSE IF ~Exists(pages, pageId) THEN Throw("deletePage", token, pageId, NoId, ErrPageNotFound)
    ELSE IF ~DeletableOrder(pages[pageId].blockOrder)
    THEN Throw("deletePage", token, pageId, NoId, ErrStoreMissing)
    ELSE /\ CanLog
         /\ blocks' = [b \in DOMAIN blocks \ Range(pages[pageId].blockOrder) |-> blocks[b]]
         /\ pages' = Delete(pages, pageId)
         /\ logAudit(admin.id, "page.delete", "page", pageId, Undefined)
         /\ last' = Call("deletePage", token, pageId, NoId, OK, NoId)
         /\ UNCHANGED <<calls, globalSections, users, workspaces, sessions, apiKeys, nextId, now, hist>>

reorderBlocks(token, pageId, blockOrder) ==
    LET admin == requireAdmin(token) IN
    IF admin.err # OK THEN Throw("reorderBlocks", token, pageId, blockOrder, admin.err)
    ELSE IF ~Exists(pages, pageId) THEN Throw("reorderBlocks", token, pageId, blockOrder, ErrStoreMissing)
    ELSE /\ CanLog
         /\ pages' = [pages EXCEPT ![pageId] = [@ EXCEPT !.blockOrder = blockOrder, !.updatedBy = admin.id]]
         /\ logAudit(admin.id, "page.reorder_blocks", "page", pageId, Undefined)
         /\ last' = Call("reorderBlocks", token, pageId, blockOrder, OK, NoId)
         /\ UNCHANGED <<calls, globalSections, users, workspaces, sessions, blocks, apiKeys, nextId, now, hist>>

(***************************************************************************)
(* blocks.ts.  A block document holds pageId, content, layout,             *)
(* isStructureLocked, createdBy and updatedBy.  A content is a record      *)
(* with its discriminant type; a text content holds body and maxLength     *)
(* (Undefined when it is not given).                                       *)
(***************************************************************************)
\* Array.prototype.splice(index, 0, id) for 0 <= index
Splice_append(order, index, id) == Append(order, id)

Splice(order, index, id) ==
    IF index >= Len(order) THEN Append(order, id)
    ELSE SubSeq(order, 1, index) \o <<id>> \o SubSeq(order, index + 1, Len(order))

\* Array.prototype.indexOf: the first index, from 0, or -1
IndexOf(order, id) ==
    IF id \in Range(order) THEN (CHOOSE i \in DOMAIN order : order[i] = id /\ \A j \in 1..(i - 1) : order[j] # id) - 1
    ELSE -1

\* Array.prototype.filter((id) => id !== blockId)
RECURSIVE Without(_, _)
Without(order, blockId) ==
    IF order = <<>> THEN <<>>
    ELSE (IF Head(order) = blockId THEN <<>> ELSE <<Head(order)>>) \o Without(Tail(order), blockId)

\* position is Undefined when it is not given
addBlock(token, pageId, content, layout, position) ==
    LET admin == requireAdmin(token) IN
    IF admin.err # OK THEN Throw("addBlock", token, pageId, content, admin.err)
    ELSE IF ~Exists(pages, pageId) THEN Throw("addBlock", token, pageId, content, ErrPageNotFound)
    ELSE /\ CanLog
         /\ blocks' = Insert(blocks, nextId.blocks,
                [pageId |-> pageId, content |-> content, layout |-> layout,
                 isStructureLocked |-> FALSE, createdBy |-> admin.id, updatedBy |-> NoId])
         /\ pages' = [pages EXCEPT ![pageId] =
                [@ EXCEPT !.blockOrder =
                     IF position # Undefined /\ position < Len(pages[pageId].blockOrder)
                     THEN Splice(pages[pageId].blockOrder, position, nextId.blocks)
                     ELSE Append(pages[pageId].blockOrder, nextId.blocks),
                   !.updatedBy = admin.id]]
         /\ nextId' = [nextId EXCEPT !.blocks = @ + 1]
         /\ logAudit(admin.id, "block.create", "block", nextId.blocks, content.type)
         /\ last' = Call("addBlock", token, pageId, content, OK, nextId.blocks)
         /\ UNCHANGED <<calls, globalSections, users, workspaces, sessions, apiKeys, now, hist>>

\* maxLen && args.content.body.length > maxLen
ExceedsMaxLength(maxLen, body) == maxLen # Undefined /\ maxLen # 0 /\ Len(body) > maxLen

\* block.content.type !== args.content.type, refused unless user.role is admin
TypeChangeRefused_never(role, oldType, newType) == FALSE

TypeChangeRefused(role, oldType, newType) == oldType # newType /\ role # "admin"

updateContent_patchesLayout(token, blockId, content) ==
    LET user == requireEditor(token) IN
    IF user.err # OK THEN Throw("updateContent", token, blockId, content, user.err)
    ELSE IF ~Exists(blocks, blockId) THEN Throw("updateContent", token, blockId, content, ErrBlockNotFound)
    ELSE /\ CanLog
         /\ blocks' = [blocks EXCEPT ![blockId] =
                [@ EXCEPT !.content = content, !.layout = [width |-> "narrow"], !.updatedBy = user.id]]
         /\ logAudit(user.id, "block.update_content", "block", blockId, Undefined)
         /\ last' = Call("updateContent", token, blockId, content, OK, NoId)
         /\ UNCHANGED <<calls, globalSections, users, workspaces, sessions, pages, apiKeys, nextId, now, hist>>

updateContent(token, blockId, content) ==
    LET user == requireEditor(token) IN
    IF user.err # OK THEN Throw("updateContent", token, blockId, content, user.err)
    ELSE IF ~Exists(blocks, blockId) THEN Throw("updateContent", token, blockId, content, ErrBlockNotFound)
    ELSE IF TypeChangeRefused(user.role, blocks[blockId].content.type, content.type)
    THEN Throw("updateContent", token, blockId, content, ErrTypeAdmin)
    ELSE IF /\ content.type = "text"
            /\ blocks[blockId].content.type = "text"
            /\ ExceedsMaxLength(blocks[blockId].content.maxLength, content.body)
    THEN Throw("updateContent", token, blockId, content, ErrTooLong)
    ELSE /\ CanLog
         /\ blocks' = [blocks EXCEPT ![blockId] = [@ EXCEPT !.content = content, !.updatedBy = user.id]]
         /\ logAudit(user.id, "block.update_content", "block", blockId, Undefined)
         /\ last' = Call("updateContent", token, blockId, content, OK, NoId)
         /\ UNCHANGED <<calls, globalSections, users, workspaces, sessions, pages, apiKeys, nextId, now, hist>>

updateLayout(token, blockId, layout) ==
    LET admin == requireAdmin(token) IN
    IF admin.err # OK THEN Throw("updateLayout", token, blockId, layout, admin.err)
    ELSE IF ~Exists(blocks, blockId) THEN Throw("updateLayout", token, blockId, layout, ErrStoreMissing)
    ELSE /\ CanLog
         /\ blocks' = [blocks EXCEPT ![blockId] = [@ EXCEPT !.layout = layout, !.updatedBy = admin.id]]
         /\ logAudit(admin.id, "block.update_layout", "block", blockId, Undefined)
         /\ last' = Call("updateLayout", token, blockId, layout, OK, NoId)
         /\ UNCHANGED <<calls, globalSections, users, workspaces, sessions, pages, apiKeys, nextId, now, hist>>

toggleLock(token, blockId) ==
    LET admin == requireAdmin(token) IN
    IF admin.err # OK THEN Throw("toggleLock", token, blockId, NoId, admin.err)
    ELSE IF ~Exists(blocks, blockId) THEN Throw("toggleLock", token, blockId, NoId, ErrBlockNotFound)
    ELSE /\ CanLog
         /\ blocks' = [blocks EXCEPT ![blockId] =
                [@ EXCEPT !.isStructureLocked = ~blocks[blockId].isStructureLocked]]
         /\ logAudit(admin.id, "block.toggle_lock", "block", blockId, Undefined)
         /\ last' = Call("toggleLock", token, blockId, NoId, OK, NoId)
         /\ UNCHANGED <<calls, globalSections, users, workspaces, sessions, pages, apiKeys, nextId, now, hist>>

deleteBlock(token, blockId) ==
    LET admin == requireAdmin(token) IN
    IF admin.err # OK THEN Throw("deleteBlock", token, blockId, NoId, admin.err)
    ELSE IF ~Exists(blocks, blockId) THEN Throw("deleteBlock", token, blockId, NoId, ErrBlockNotFound)
    ELSE /\ CanLog
         /\ pages' = IF Exists(pages, blocks[blockId].pageId)
                     THEN [pages EXCEPT ![blocks[blockId].pageId] =
                              [@ EXCEPT !.blockOrder = Without(@, blockId), !.updatedBy = admin.id]]
                     ELSE pages
         /\ blocks' = Delete(blocks, blockId)
         /\ logAudit(admin.id, "block.delete", "block", blockId, Undefined)
         /\ last' = Call("deleteBlock", token, blockId, NoId, OK, NoId)
         /\ UNCHANGED <<calls, globalSections, users, workspaces, sessions, apiKeys, nextId, now, hist>>

duplicateBlock(token, blockId) ==
    LET admin == requireAdmin(token) IN
    IF admin.err # OK THEN Throw("duplicateBlock", token, blockId, NoId, admin.err)
    ELSE IF ~Exists(blocks, blockId) THEN Throw("duplicateBlock", token, blockId, NoId, ErrBlockNotFound)
    ELSE /\ CanLog
         /\ blocks' = Insert(blocks, nextId.blocks,
                [pageId |-> blocks[blockId].pageId, content |-> blocks[blockId].content,
                 layout |-> blocks[blockId].layout, isStructureLocked |-> FALSE,
                 createdBy |-> admin.id, updatedBy |-> NoId])
         /\ pages' = IF Exists(pages, blocks[blockId].pageId)
                     THEN [pages EXCEPT ![blocks[blockId].pageId] =
                              [@ EXCEPT !.blockOrder = Splice(@, IndexOf(@, blockId) + 1, nextId.blocks),
                                        !.updatedBy = admin.id]]
                     ELSE pages
         /\ nextId' = [nextId EXCEPT !.blocks = @ + 1]
         /\ logAudit(admin.id, "block.duplicate", "block", nextId.blocks, Undefined)
         /\ last' = Call("duplicateBlock", token, blockId, NoId, OK, nextId.blocks)
         /\ UNCHANGED <<calls, globalSections, users, workspaces, sessions, apiKeys, now, hist>>

(***************************************************************************)
(* globalSections.ts.                                                      *)
(***************************************************************************)
\* the default sections of a type that the index by_type holds, in every workspace
DefaultsOfType(type) ==
    {g \in DOMAIN globalSections : globalSections[g].type = type /\ globalSections[g].isDefault}

globalSections_create(token, slug, type, content, isDefault) ==
    LET admin == requireAdmin(token)
        existing == IF isDefault THEN DefaultsOfType(type) ELSE {}
    IN
    IF admin.err # OK THEN Throw("createSection", token, NoId, <<type, isDefault>>, admin.err)
    ELSE IF WorkspaceIdOf(admin) = NoId
    THEN Throw("createSection", token, NoId, <<type, isDefault>>, ErrWorkspace)
    ELSE /\ CanLog
         /\ globalSections' = Insert(
                [g \in DOMAIN globalSections |->
                    IF g \in existing THEN [globalSections[g] EXCEPT !.isDefault = FALSE]
                    ELSE globalSections[g]],
                nextId.globalSections,
                [workspaceId |-> WorkspaceIdOf(admin), slug |-> slug, type |-> type,
                 content |-> content, isDefault |-> isDefault, createdBy |-> admin.id,
                 updatedBy |-> NoId])
         /\ nextId' = [nextId EXCEPT !.globalSections = @ + 1]
         /\ logAudit(admin.id, "globalSection.create", "globalSection", nextId.globalSections, Undefined)
         /\ last' = Call("createSection", token, nextId.globalSections, <<type, isDefault>>, OK,
                         nextId.globalSections)
         /\ UNCHANGED <<calls, users, workspaces, sessions, pages, blocks, apiKeys, now, hist>>

globalSections_updateContent(token, sectionId, content) ==
    LET user == requireEditor(token) IN
    IF user.err # OK THEN Throw("updateSectionContent", token, sectionId, content, user.err)
    ELSE IF ~Exists(globalSections, sectionId)
    THEN Throw("updateSectionContent", token, sectionId, content, ErrSectionNotFound)
    ELSE IF globalSections[sectionId].content.type # content.type /\ user.role # "admin"
    THEN Throw("updateSectionContent", token, sectionId, content, ErrSectionTypeAdmin)
    ELSE /\ CanLog
         /\ globalSections' = [globalSections EXCEPT
                ![sectionId] = [@ EXCEPT !.content = content, !.updatedBy = user.id]]
         /\ logAudit(user.id, "globalSection.update_content", "globalSection", sectionId, Undefined)
         /\ last' = Call("updateSectionContent", token, sectionId, content, OK, NoId)
         /\ UNCHANGED <<calls, users, workspaces, sessions, pages, blocks, apiKeys, nextId, now, hist>>

deleteSection(token, sectionId) ==
    LET admin == requireAdmin(token) IN
    IF admin.err # OK THEN Throw("deleteSection", token, sectionId, NoId, admin.err)
    ELSE IF ~Exists(globalSections, sectionId)
    THEN Throw("deleteSection", token, sectionId, NoId, ErrStoreMissing)
    ELSE /\ CanLog
         /\ globalSections' = Delete(globalSections, sectionId)
         /\ logAudit(admin.id, "globalSection.delete", "globalSection", sectionId, Undefined)
         /\ last' = Call("deleteSection", token, sectionId, NoId, OK, NoId)
         /\ UNCHANGED <<calls, users, workspaces, sessions, pages, blocks, apiKeys, nextId, now, hist>>

(***************************************************************************)
(* apiKeys.ts.  The public key string of a key document is the number of   *)
(* its generation: generateKeyPair draws 24 characters at random.  The     *)
(* secret it draws is any of the secrets of the model.                     *)
(***************************************************************************)
\* Number.prototype.toString(36) of an integer
ToStringSigned36(n) == IF n < 0 THEN <<45>> \o ToString36(0 - n) ELSE ToString36(n)

\* apiKeys: hash.toString(36) + str.length.toString(36)
apiKeys_simpleHash(str) == ToStringSigned36(ToInt32(HashLoop(<<0, 0>>, str))) \o ToString36(Len(str))

\* a permissions argument that is not given
NoPermissions == <<"undefined">>

\* args.permissions ?? ["pages:read", "blocks:read"]
PermissionsOrDefault(permissions) ==
    IF permissions = NoPermissions THEN <<"pages:read", "blocks:read">> ELSE permissions

\* args.expiresInDays ? Date.now() + args.expiresInDays * 24 * 60 * 60 * 1000 : undefined
ExpiresAt(expiresInDays) ==
    IF expiresInDays # Undefined /\ expiresInDays # 0 THEN now + expiresInDays * DayMs ELSE Undefined

apiKeys_create(token, secret, permissions, expiresInDays) ==
    LET admin == requireAdmin(token) IN
    IF admin.err # OK THEN Throw("createApiKey", token, NoId, permissions, admin.err)
    ELSE /\ CanLog
         /\ nextId.apiKeys <= MaxKeys
         /\ apiKeys' = Insert(apiKeys, nextId.apiKeys,
                [key |-> nextId.apiKeys, secretHash |-> apiKeys_simpleHash(secret),
                 permissions |-> PermissionsOrDefault(permissions), isActive |-> TRUE,
                 expiresAt |-> ExpiresAt(expiresInDays), createdBy |-> admin.id,
                 lastUsedAt |-> Undefined])
         /\ nextId' = [nextId EXCEPT !.apiKeys = @ + 1]
         /\ logAudit(admin.id, "apiKey.create", "apiKey", nextId.apiKeys, Undefined)
         /\ last' = Call("createApiKey", token, nextId.apiKeys, permissions, OK,
                         [id |-> nextId.apiKeys, key |-> nextId.apiKeys, secret |-> secret])
         /\ hist' = [hist EXCEPT !.secrets = Insert(@, nextId.apiKeys, secret)]
         /\ UNCHANGED <<calls, globalSections, users, workspaces, sessions, pages, blocks, now>>

revoke(token, apiKeyId) ==
    LET admin == requireAdmin(token) IN
    IF admin.err # OK THEN Throw("revoke", token, apiKeyId, NoId, admin.err)
    ELSE IF ~Exists(apiKeys, apiKeyId) THEN Throw("revoke", token, apiKeyId, NoId, ErrKeyNotFound)
    ELSE /\ CanLog
         /\ apiKeys' = [apiKeys EXCEPT ![apiKeyId].isActive = FALSE]
         /\ logAudit(admin.id, "apiKey.revoke", "apiKey", apiKeyId, Undefined)
         /\ last' = Call("revoke", token, apiKeyId, NoId, OK, NoId)
         /\ UNCHANGED <<calls, globalSections, users, workspaces, sessions, pages, blocks, nextId, now, hist>>

reactivate(token, apiKeyId) ==
    LET admin == requireAdmin(token) IN
    IF admin.err # OK THEN Throw("reactivate", token, apiKeyId, NoId, admin.err)
    ELSE IF ~Exists(apiKeys, apiKeyId) THEN Throw("reactivate", token, apiKeyId, NoId, ErrKeyNotFound)
    ELSE /\ CanLog
         /\ apiKeys' = [apiKeys EXCEPT ![apiKeyId].isActive = TRUE]
         /\ logAudit(admin.id, "apiKey.reactivate", "apiKey", apiKeyId, Undefined)
         /\ last' = Call("reactivate", token, apiKeyId, NoId, OK, NoId)
         /\ UNCHANGED <<calls, globalSections, users, workspaces, sessions, pages, blocks, nextId, now, hist>>

deleteKey(token, apiKeyId) ==
    LET admin == requireAdmin(token) IN
    IF admin.err # OK THEN Throw("deleteKey", token, apiKeyId, NoId, admin.err)
    ELSE IF ~Exists(apiKeys, apiKeyId) THEN Throw("deleteKey", token, apiKeyId, NoId, ErrKeyNotFound)
    ELSE /\ CanLog
         /\ apiKeys' = Delete(apiKeys, apiKeyId)
         /\ logAudit(admin.id, "apiKey.delete", "apiKey", apiKeyId, Undefined)
         /\ last' = Call("deleteKey", token, apiKeyId, NoId, OK, NoId)
         /\ UNCHANGED <<calls, globalSections, users, workspaces, sessions, pages, blocks, nextId, now, hist>>

\* the keys that the index by_key holds for a public key string
KeysByKey(key) == {k \in DOMAIN apiKeys : apiKeys[k].key = key}

\* the error validateApiKey throws, or OK
validateApiKey_permissionFirst(key, secret, requiredPermission) ==
    IF Cardinality(KeysByKey(key)) > 1 THEN ErrStoreUnique
    ELSE IF KeysByKey(key) = {} THEN ErrKeyInvalid
    ELSE LET apiKey == apiKeys[CHOOSE k \in KeysByKey(key) : TRUE] IN
         IF requiredPermission \notin Range(apiKey.permissions) THEN ErrPermission
         ELSE IF ~apiKey.isActive THEN ErrKeyRevoked
         ELSE IF apiKey.expiresAt # Undefined /\ apiKey.expiresAt # 0 /\ apiKey.expiresAt < now THEN ErrKeyExpired
         ELSE IF apiKey.secretHash # apiKeys_simpleHash(secret) THEN ErrSecret
         ELSE OK

validateApiKey(key, secret, requiredPermission) ==
    IF Cardinality(KeysByKey(key)) > 1 THEN ErrStoreUnique
    ELSE IF KeysByKey(key) = {} THEN ErrKeyInvalid
    ELSE LET apiKey == apiKeys[CHOOSE k \in KeysByKey(key) : TRUE] IN
         IF ~apiKey.isActive THEN ErrKeyRevoked
         ELSE IF apiKey.expiresAt # Undefined /\ apiKey.expiresAt # 0 /\ apiKey.expiresAt < now THEN ErrKeyExpired
         ELSE IF apiKey.secretHash # apiKeys_simpleHash(secret) THEN ErrSecret
         ELSE IF requiredPermission \notin Range(apiKey.permissions) THEN ErrPermission
         ELSE OK

\* a call of validateApiKey by a query: the outcome is the error it throws
validate(key, secret, requiredPermission) ==
    /\ last' = Call("validateApiKey", NoToken, key, <<secret, requiredPermission>>,
                    validateApiKey(key, secret, requiredPermission), NoId)
    /\ UNCHANGED <<calls, globalSections, users, workspaces, sessions, pages, blocks, apiKeys, auditLog, nextId, now, hist>>

recordUsage(key) ==
    IF Cardinality(KeysByKey(key)) > 1 THEN Throw("recordUsage", NoToken, key, NoId, ErrStoreUnique)
    ELSE /\ apiKeys' = [k \in DOMAIN apiKeys |->
                IF k \in KeysByKey(key) THEN [apiKeys[k] EXCEPT !.lastUsedAt = now] ELSE apiKeys[k]]
         /\ last' = Call("recordUsage", NoToken, key, NoId, OK, NoId)
         /\ UNCHANGED <<calls, globalSections, users, workspaces, sessions, pages, blocks, auditLog, nextId, now, hist>>

(***************************************************************************)
(* The queries behind a session token.  The outcome of a query is OK when  *)
(* it returns, with the value returned, or the error it throws.            *)
(***************************************************************************)
\* a query that returned a value
Return(op, token, target, value) ==
    /\ last' = Call(op, token, target, NoId, OK, value)
    /\ UNCHANGED <<calls, globalSections, users, workspaces, sessions, pages, blocks, apiKeys, auditLog,
                   nextId, now, hist>>

\* pages.listAll: the ids of the pages returned
pages_listAll(token) ==
    IF token = NoToken \/ requireEditor(token).err # OK THEN Return("listAll", token, NoId, {})
    ELSE Return("listAll", token, NoId, DOMAIN pages)

\* the value of getForEdit that stands for null
NoPage == [page |-> NoId, blocks |-> <<>>]

getForEdit(token, pageId) ==
    IF token = NoToken \/ requireEditor(token).err # OK THEN Return("getForEdit", token, pageId, NoPage)
    ELSE IF ~Exists(pages, pageId) THEN Return("getForEdit", token, pageId, NoPage)
    ELSE Return("getForEdit", token, pageId,
                [page |-> pageId, blocks |-> Hydrate(pages[pageId].blockOrder)])

\* users.listUsers: the ids of the users returned
listUsers(token) ==
    LET admin == requireAdmin(token) IN
    IF token = NoToken \/ admin.err # OK THEN Return("listUsers", token, NoId, {})
    ELSE IF WorkspaceIdOf(admin) = NoId THEN Return("listUsers", token, NoId, {})
    ELSE Return("listUsers", token, NoId,
                {u \in DOMAIN users : users[u].workspaceId = WorkspaceIdOf(admin)})

\* auditLog.getRecent: the positions of the entries returned
getRecent(token) ==
    IF token = NoToken \/ requireAdmin(token).err # OK THEN Return("getRecent", token, NoId, {})
    ELSE Return("getRecent", token, NoId, DOMAIN auditLog)

\* globalSections.listAll: the ids of the sections returned
globalSections_listAll(token) ==
    IF token = NoToken \/ requireEditor(token).err # OK THEN Return("listSections", token, NoId, {})
    ELSE Return("listSections", token, NoId, DOMAIN globalSections)

\* apiKeys.list: the ids of the keys returned
apiKeys_list(token) ==
    LET admin == requireAdmin(token) IN
    IF admin.err # OK THEN Throw("listKeys", token, NoId, NoId, admin.err)
    ELSE Return("listKeys", token, NoId, DOMAIN apiKeys)

getConnectionInfo(token) ==
    LET admin == requireAdmin(token) IN
    IF admin.err # OK THEN Throw("getConnectionInfo", token, NoId, NoId, admin.err)
    ELSE Return("getConnectionInfo", token, NoId, {})

(***************************************************************************)
(* The queries behind an API key: pages.getBySlugWithApiKey,               *)
(* pages.listPublishedWithApiKey, settings.getWithApiKey.                  *)
(***************************************************************************)
\* the table siteSettings: the records "general" of the two workspaces
siteSettings == <<[workspaceId |-> 1, key |-> "general"], [workspaceId |-> 2, key |-> "general"]>>

\* .first() of the default sections of a type in the index by_type, or null
FirstDefault(type) ==
    IF DefaultsOfType(type) = {} THEN NoId
    ELSE CHOOSE g \in DefaultsOfType(type) : \A h \in DefaultsOfType(type) : g <= h

\* the value of getBySlugWithApiKey that stands for null
NoApiPage == [page |-> NoId, blocks |-> <<>>, header |-> NoId, footer |-> NoId]

getBySlugWithApiKey(slug, apiKey, apiSecret) ==
    LET err == validateApiKey(apiKey, apiSecret, "pages:read") IN
    IF err # OK THEN Throw("getBySlugWithApiKey", NoToken, apiKey, slug, err)
    ELSE IF Cardinality(PagesBySlug(slug)) > 1
    THEN Throw("getBySlugWithApiKey", NoToken, apiKey, slug, ErrStoreUnique)
    ELSE /\ last' = Call("getBySlugWithApiKey", NoToken, apiKey, slug, OK,
                IF PagesBySlug(slug) = {} THEN NoApiPage
                ELSE LET pageId == CHOOSE p \in PagesBySlug(slug) : TRUE IN
                     IF pages[pageId].status # "published" THEN NoApiPage
                     ELSE [page |-> pageId, blocks |-> Hydrate(pages[pageId].blockOrder),
                           header |-> FirstDefault("header"), footer |-> FirstDefault("footer")])
         /\ UNCHANGED <<calls, globalSections, users, workspaces, sessions, pages, blocks, apiKeys, auditLog,
                        nextId, now, hist>>

\* the ids of the pages returned
listPublishedWithApiKey(apiKey, apiSecret) ==
    LET err == validateApiKey(apiKey, apiSecret, "pages:read") IN
    IF err # OK THEN Throw("listPublishedWithApiKey", NoToken, apiKey, NoId, err)
    ELSE /\ last' = Call("listPublishedWithApiKey", NoToken, apiKey, NoId, OK,
                         {p \in DOMAIN pages : pages[p].status = "published"})
         /\ UNCHANGED <<calls, globalSections, users, workspaces, sessions, pages, blocks, apiKeys, auditLog,
                        nextId, now, hist>>

\* the id of the settings record returned, NoId for null
getWithApiKey(apiKey, apiSecret, workspaceId, key) ==
    LET err == validateApiKey(apiKey, apiSecret, "pages:read")
        found == {i \in DOMAIN siteSettings :
                     siteSettings[i].workspaceId = workspaceId /\ siteSettings[i].key = key}
    IN
    IF err # OK THEN Throw("getWithApiKey", NoToken, apiKey, workspaceId, err)
    ELSE IF Cardinality(found) > 1 THEN Throw("getWithApiKey", NoToken, apiKey, workspaceId, ErrStoreUnique)
    ELSE /\ last' = Call("getWithApiKey", NoToken, apiKey, workspaceId, OK,
                         IF found = {} THEN NoId ELSE CHOOSE i \in found : TRUE)
         /\ UNCHANGED <<calls, globalSections, users, workspaces, sessions, pages, blocks, apiKeys, auditLog,
                        nextId, now, hist>>

(***************************************************************************)
(* Inputs of the calls.                                                    *)
(***************************************************************************)
\* "a", "b", "c", "A" as slugs; "About" as a title
SlugA == <<97>>
SlugB == <<98>>
SlugC == <<99>>
SlugUpper == <<65>>
Title == <<65, 98, 111, 117, 116>>

Hero == [type |-> "hero", heading |-> <<72>>]

Text(body, maxLength) == [type |-> "text", body |-> body, maxLength |-> maxLength]

Layout == [width |-> "full"]
LayoutNarrow == [width |-> "narrow"]

\* the bodies "", "x", "xx", ... of at most n characters
Bodies(n) == {[i \in 1..k |-> 120] : k \in 0..n}

\* arrays of block ids a caller passes to reorderBlocks: empty, of one block,
\* of a block of the other page, with a block twice, a permutation
Orders == {<<>>, <<1>>, <<2>>, <<1, 1>>, <<3, 1>>}

(***************************************************************************)
(* The store of a deployment in use: two workspaces, the admin (user 1)    *)
(* and an editor (user 2) of the first with their sessions (tokens 1 and   *)
(* 2), the admin of the second (user 3), a draft page of one block in the  *)
(* first workspace, a published page of one block in the second, a        *)
(* default header section in each workspace, and one active API key.       *)
(* pages.create cannot add pages to it: with the projection that           *)
(* authenticateUser returns, it throws "Workspace not found" for every     *)
(* caller.                                                                 *)
(***************************************************************************)
\* "Aa", the password every seeded account was created with
SeedPassword == <<65, 97>>

SeedUser(email, role, workspaceId) ==
    [name |-> email, email |-> email, passwordHash |-> simpleHash(SeedPassword), role |-> role,
     isActive |-> TRUE, workspaceId |-> workspaceId, lastLoginAt |-> Undefined]

SeedPage(workspaceId, slug, status, blockOrder, createdBy) ==
    [workspaceId |-> workspaceId, title |-> Title, slug |-> slug, status |-> status,
     blockOrder |-> blockOrder, publishedAt |-> IF status = "published" THEN DayMs ELSE Undefined,
     createdBy |-> createdBy, updatedBy |-> NoId]

SeedBlock(pageId, content, createdBy) ==
    [pageId |-> pageId, content |-> content, layout |-> Layout, isStructureLocked |-> FALSE,
     createdBy |-> createdBy, updatedBy |-> NoId]

\* a default section of a type
SeedSection(workspaceId, type, content, createdBy) ==
    [workspaceId |-> workspaceId, slug |-> <<104>>, type |-> type, content |-> content,
     isDefault |-> TRUE, createdBy |-> createdBy, updatedBy |-> NoId]

\* an active key without expiry, as apiKeys.create inserts it
SeedKey(key, secret, createdBy) ==
    [key |-> key, secretHash |-> apiKeys_simpleHash(secret), permissions |-> <<"pages:read">>,
     isActive |-> TRUE, expiresAt |-> Undefined, createdBy |-> createdBy, lastUsedAt |-> Undefined]

InitSeeded ==
    /\ users = <<SeedUser(<<97>>, "admin", 1), SeedUser(<<101>>, "editor", 1), SeedUser(<<98>>, "admin", 2)>>
    /\ workspaces = <<[name |-> <<97>> \o WorkspaceSuffix, ownerId |-> 1, createdAt |-> DayMs],
                      [name |-> <<98>> \o WorkspaceSuffix, ownerId |-> 3, createdAt |-> DayMs]>>
    /\ sessions = <<[userId |-> 1, token |-> 1, expiresAt |-> DayMs + 7 * DayMs],
                    [userId |-> 2, token |-> 2, expiresAt |-> DayMs + 7 * DayMs]>>
    /\ pages = <<SeedPage(1, SlugA, "draft", <<1>>, 1), SeedPage(2, SlugB, "published", <<2>>, 3)>>
    /\ blocks = <<SeedBlock(1, Hero, 1), SeedBlock(2, Text(<<120>>, 1), 3)>>
    /\ globalSections = <<SeedSection(1, "header", Hero, 1), SeedSection(2, "header", Hero, 3)>>
    /\ apiKeys = <<SeedKey(1, <<65, 97>>, 1)>>
    /\ auditLog = <<>>
    /\ nextId = [users |-> 4, workspaces |-> 3, sessions |-> 3, tokens |-> 3, pages |-> 3,
                 blocks |-> 3, globalSections |-> 3, apiKeys |-> 2]
    /\ now = DayMs
    /\ last = Call("idle", NoToken, NoId, NoId, OK, NoId)
    /\ hist = [loggedOut |-> {}, registered |-> {}, secrets |-> <<<<65, 97>>>>]
    /\ calls = NoCalls

(***************************************************************************)
(* A client makes a call when it holds no outcome, and reads the outcome   *)
(* of its call before it makes the next.                                   *)
(***************************************************************************)
Idle == last.op = "idle"

Settle ==
    /\ ~Idle
    /\ last' = Call("idle", NoToken, NoId, NoId, OK, NoId)
    /\ UNCHANGED <<calls, globalSections, users, workspaces, sessions, pages, blocks, apiKeys, auditLog, nextId, now, hist>>

(***************************************************************************)
(* The page lifecycle: the admin and the editor of the first workspace     *)
(* call the page mutations on the pages of both workspaces.                *)
(***************************************************************************)
NextPages ==
    \/ Idle /\ \E t \in 1..2, slug \in {SlugA, SlugC, SlugUpper} : pages_create(t, Title, slug)
    \/ Idle /\ \E t \in 1..2, p \in 1..2, slug \in {NoString, <<>>, SlugB, SlugUpper} :
                  updateMeta(t, p, NoString, slug)
    \/ Idle /\ \E t \in 1..2, p \in 1..2 : publish(t, p)
    \/ Idle /\ \E t \in 1..2, p \in 1..2 : unpublish(t, p)
    \/ Idle /\ \E t \in 1..2, p \in 1..2 : archive(t, p)
    \/ Idle /\ \E t \in 1..2, p \in 1..2 : deletePage(t, p)
    \/ Settle

SpecPages == InitSeeded /\ [][NextPages]_vars

(***************************************************************************)
(* The block structure of the pages.                                       *)
(***************************************************************************)
NextStructure ==
    \/ Idle /\ \E t \in 1..2, p \in 1..2, position \in {Undefined, 0} : addBlock(t, p, Hero, Layout, position)
    \/ Idle /\ \E t \in 1..2, b \in 1..3 : deleteBlock(t, b)
    \/ Idle /\ \E t \in 1..2, b \in 1..3 : duplicateBlock(t, b)
    \/ Idle /\ \E t \in 1..2, p \in 1..2, order \in Orders : reorderBlocks(t, p, order)
    \/ Idle /\ \E t \in 1..2, p \in 1..2 : deletePage(t, p)
    \/ Settle

SpecStructure == InitSeeded /\ [][NextStructure]_vars

(***************************************************************************)
(* The content of the blocks.                                              *)
(***************************************************************************)
Contents == {Hero} \cup {Text(body, maxLength) : body \in Bodies(2), maxLength \in {Undefined, 0, 1}}

NextContent ==
    \/ Idle /\ \E t \in 1..2, maxLength \in {Undefined, 0, 1, 2} :
                  addBlock(t, 1, Text(<<>>, maxLength), Layout, Undefined)
    \/ Idle /\ \E t \in 1..2, b \in 1..3, content \in Contents : updateContent(t, b, content)
    \/ Settle

SpecContent == InitSeeded /\ [][NextContent]_vars

(***************************************************************************)
(* Every page and block mutation, called by the admin and by the editor.   *)
(***************************************************************************)
NextRoles ==
    \/ Idle /\ \E t \in 1..2 : pages_create(t, Title, SlugC)
    \/ Idle /\ \E t \in 1..2, p \in 1..2 : updateMeta(t, p, Title, NoString)
    \/ Idle /\ \E t \in 1..2, p \in 1..2 : publish(t, p)
    \/ Idle /\ \E t \in 1..2, p \in 1..2 : unpublish(t, p)
    \/ Idle /\ \E t \in 1..2, p \in 1..2 : archive(t, p)
    \/ Idle /\ \E t \in 1..2, p \in 1..2 : deletePage(t, p)
    \/ Idle /\ \E t \in 1..2, p \in 1..2 : reorderBlocks(t, p, <<>>)
    \/ Idle /\ \E t \in 1..2, p \in 1..2 : addBlock(t, p, Hero, Layout, Undefined)
    \/ Idle /\ \E t \in 1..2, b \in 1..2 : updateContent(t, b, Text(<<>>, Undefined))
    \/ Idle /\ \E t \in 1..2, b \in 1..2 : updateLayout(t, b, LayoutNarrow)
    \/ Idle /\ \E t \in 1..2, b \in 1..2 : toggleLock(t, b)
    \/ Idle /\ \E t \in 1..2, b \in 1..2 : deleteBlock(t, b)
    \/ Idle /\ \E t \in 1..2, b \in 1..2 : duplicateBlock(t, b)
    \/ Settle

SpecRoles == InitSeeded /\ [][NextRoles]_vars

(***************************************************************************)
(* Accounts and sessions, from the empty store of a new deployment.        *)
(***************************************************************************)
InitEmpty ==
    /\ users = <<>>
    /\ workspaces = <<>>
    /\ sessions = <<>>
    /\ pages = <<>>
    /\ blocks = <<>>
    /\ globalSections = <<>>
    /\ apiKeys = <<>>
    /\ auditLog = <<>>
    /\ nextId = [users |-> 1, workspaces |-> 1, sessions |-> 1, tokens |-> 1, pages |-> 1,
                 blocks |-> 1, globalSections |-> 1, apiKeys |-> 1]
    /\ now = DayMs
    /\ last = Call("idle", NoToken, NoId, NoId, OK, NoId)
    /\ hist = [loggedOut |-> {}, registered |-> {}, secrets |-> <<>>]
    /\ calls = NoCalls

\* "a", "A " and "b" as emails; "Aa", "BB" and "b" as passwords; "n" as a name
Emails == {<<97>>, <<65, 32>>, <<98>>}
Passwords == {<<65, 97>>, <<66, 66>>, <<98>>}
Name == <<110>>

\* the empty token and the tokens generateToken issues
Tokens == 0..MaxTokens

NextAuth ==
    \/ Idle /\ \E email \in Emails, password \in Passwords : register(Name, email, password)
    \/ Idle /\ \E email \in Emails, password \in Passwords : login(email, password)
    \/ Idle /\ \E t \in Tokens : logout(t)
    \/ Idle /\ \E t \in Tokens : me(t)
    \/ Idle /\ \E t \in Tokens, email \in {<<65, 32>>, <<99>>}, role \in {"admin", "editor"} :
                    createUser(t, Name, email, <<98>>, role)
    \/ Idle /\ \E t \in Tokens, u \in 1..MaxUsers : toggleUserActive(t, u)
    \/ Idle /\ \E t \in Tokens : publish(t, 1)
    \/ Idle /\ \E t \in Tokens : updateContent(t, 1, Hero)
    \/ Settle

SpecAuth == InitEmpty /\ [][NextAuth]_vars

(***************************************************************************)
(* The API keys of the seeded deployment.                                  *)
(***************************************************************************)
\* "Aa" and "BB" as secrets
Secrets == {<<65, 97>>, <<66, 66>>}

NextKeys ==
    \/ Idle /\ \E t \in 1..2, secret \in Secrets, permissions \in {NoPermissions, <<"pages:read">>},
                  expiresInDays \in {Undefined, 1} :
                  apiKeys_create(t, secret, permissions, expiresInDays)
    \/ Idle /\ \E t \in 1..2, k \in 1..MaxKeys : revoke(t, k)
    \/ Idle /\ \E t \in 1..2, k \in 1..MaxKeys : reactivate(t, k)
    \/ Idle /\ \E t \in 1..2, k \in 1..MaxKeys : deleteKey(t, k)
    \/ Idle /\ \E k \in 1..MaxKeys, secret \in Secrets, permission \in {"pages:read", "blocks:write"} :
                  validate(k, secret, permission)
    \/ Idle /\ Tick
    \/ Settle

SpecKeys == InitSeeded /\ [][NextKeys]_vars

(***************************************************************************)
(* The properties of the program.                                          *)
(***************************************************************************)
\* the role of the user a token authenticates, "none" if it authenticates none
RoleOf(token) == LET user == authenticateUser(token) IN IF user.err = OK THEN user.role ELSE "none"

\* the workspace of the user a token authenticates
WorkspaceOfCaller(token) ==
    LET user == authenticateUser(token) IN IF user.err = OK THEN users[user.id].workspaceId ELSE NoId

PageMutations == {"updateMeta", "publish", "unpublish", "archive", "deletePage", "reorderBlocks", "addBlock"}
BlockMutations == {"updateContent", "updateLayout", "toggleLock", "deleteBlock", "duplicateBlock"}

\* the workspace of the page a call addresses, or of the page of the block it addresses
WorkspaceOfTarget(op, target) ==
    IF op \in PageMutations /\ Exists(pages, target) THEN pages[target].workspaceId
    ELSE IF op \in BlockMutations /\ Exists(blocks, target) /\ Exists(pages, blocks[target].pageId)
    THEN pages[blocks[target].pageId].workspaceId
    ELSE NoId

\* C1: a mutation that an admin of one workspace calls on a page or a block of
\* another workspace fails with "Page not found" or "Block not found" and
\* changes no page, no block and no audit entry.
C1_CrossWorkspaceRefused ==
    [][(/\ Idle
        /\ last'.op \in PageMutations \cup BlockMutations
        /\ RoleOf(last'.token) = "admin"
        /\ WorkspaceOfTarget(last'.op, last'.target) # NoId
        /\ WorkspaceOfTarget(last'.op, last'.target) # WorkspaceOfCaller(last'.token))
       => (/\ last'.result \in {ErrPageNotFound, ErrBlockNotFound}
           /\ pages' = pages /\ blocks' = blocks /\ auditLog' = auditLog)]_vars

\* the errors of a call that no session authenticates
Unauthenticated == {ErrAuthRequired, ErrInvalidSession, ErrSessionExpired}

PrivilegedCalls == {"createUser", "toggleUserActive", "publish", "updateContent"}

RegisteredNormal == {NormalizeEmail(email) : email \in hist.registered}

\* C3: a login with the credentials of a successful register succeeds and
\* returns the id of the user registered, and a register with an email whose
\* normalized form has been registered fails with "Email already registered"
\* and creates no user, no workspace and no session.
C3_RegisterThenLogin ==
    /\ []((last.op = "register" /\ last.result = OK)
            => LoginOutcome(last.arg[1], last.arg[2]) = [err |-> OK, id |-> last.ret.id])
    /\ [][(Idle /\ last'.op = "register" /\ NormalizeEmail(last'.arg[1]) \in RegisteredNormal)
            => (/\ last'.result = ErrEmailExists
                /\ users' = users /\ workspaces' = workspaces /\ sessions' = sessions)]_vars

C3_Witness ==
    /\ last.op = "register"
    /\ last.result = ErrEmailExists
    /\ last.arg[1] \notin hist.registered
    /\ NormalizeEmail(last.arg[1]) \in RegisteredNormal

\* the slugs the public read is called with
ReadSlugs == {pages[p].slug : p \in DOMAIN pages} \cup {SlugA, SlugB, SlugC}

\* C4: getBySlug returns a page for a slug if and only if a page holding the
\* slug is published, and listPublished returns exactly the published pages.
C4_PublicReadsOnlyPublished ==
    /\ \A slug \in ReadSlugs :
          (getBySlug(slug).err = OK /\ getBySlug(slug).page # NoId)
              <=> (\E p \in PagesBySlug(slug) : pages[p].status = "published")
    /\ \A slug \in ReadSlugs :
          (getBySlug(slug).err = OK /\ getBySlug(slug).page # NoId)
              => (getBySlug(slug).page \in PagesBySlug(slug)
                  /\ pages[getBySlug(slug).page].status = "published")
    /\ listPublished = {p \in DOMAIN pages : pages[p].status = "published"}

StructuralOperations ==
    {"createPage", "publish", "unpublish", "archive", "deletePage", "reorderBlocks",
     "addBlock", "deleteBlock", "duplicateBlock", "toggleLock", "updateLayout"}

\* C5: a structural operation called by an editor fails with "Admin access
\* required" and changes no page, no block and no audit entry.
C5_EditorStructuralRefused ==
    [][(Idle /\ last'.op \in StructuralOperations /\ RoleOf(last'.token) = "editor")
        => (/\ last'.result = ErrAdminRequired
            /\ pages' = pages /\ blocks' = blocks /\ auditLog' = auditLog)]_vars

C5_Witness ==
    /\ last.op = "deletePage"
    /\ RoleOf(last.token) = "editor"
    /\ last.result = ErrAdminRequired
    /\ Exists(pages, last.target)

\* C6: a createPage by an admin with a well-formed slug that no page holds
\* succeeds, a createPage with a slug that a page holds fails with the slug
\* error, and after a createPage exactly one page holds the slug.
C6_CreatePageTwice ==
    [][(Idle /\ last'.op = "createPage" /\ RoleOf(last'.token) = "admin" /\ SlugFormatOk(last'.arg))
        => (/\ PagesBySlug(last'.arg) = {} => last'.result = OK
            /\ PagesBySlug(last'.arg) # {} => (last'.result = ErrSlugExists /\ pages' = pages)
            /\ Cardinality({p \in DOMAIN pages' : pages'[p].slug = last'.arg}) = 1)]_vars

\* C7: an updateContent that changes the type of a block fails with "Only
\* admins can change block type" when an editor calls it, and leaves the
\* blocks unchanged; when an admin calls it, it succeeds and the block has
\* the new type.
C7_TypeChange ==
    [][(/\ Idle
        /\ last'.op = "updateContent"
        /\ Exists(blocks, last'.target)
        /\ blocks[last'.target].content.type # last'.arg.type)
       => (/\ RoleOf(last'.token) = "editor"
                => (last'.result = ErrTypeAdmin /\ blocks' = blocks /\ pages' = pages)
           /\ RoleOf(last'.token) = "admin"
                => (last'.result = OK /\ blocks'[last'.target].content.type = last'.arg.type))]_vars

C7_Witness ==
    /\ last.op = "updateContent"
    /\ RoleOf(last.token) = "editor"
    /\ last.result = ErrTypeAdmin
    /\ blocks[last.target].content.type # last.arg.type

\* C8: on a text block stored with a maxLength, an updateContent with a text
\* body longer than the maxLength fails with the length error for an editor
\* and for an admin and leaves the blocks unchanged, and one with a body of
\* at most the maxLength succeeds.
C8_MaxLength ==
    [][(/\ Idle
        /\ last'.op = "updateContent"
        /\ RoleOf(last'.token) \in {"admin", "editor"}
        /\ Exists(blocks, last'.target)
        /\ blocks[last'.target].content.type = "text"
        /\ last'.arg.type = "text"
        /\ blocks[last'.target].content.maxLength # Undefined)
       => (/\ Len(last'.arg.body) > blocks[last'.target].content.maxLength
                => (last'.result = ErrTooLong /\ blocks' = blocks)
           /\ Len(last'.arg.body) <= blocks[last'.target].content.maxLength
                => last'.result = OK)]_vars

\* C9: after a deletePage that succeeds, the page is not in the store and no
\* block of the store has the page as its pageId.
C9_DeletePageCascades ==
    (last.op = "deletePage" /\ last.result = OK)
        => (/\ ~Exists(pages, last.target)
            /\ \A b \in DOMAIN blocks : blocks[b].pageId # last.target)

\* apiKey.expiresAt && apiKey.expiresAt < Date.now()
Expired(apiKey) == apiKey.expiresAt # Undefined /\ apiKey.expiresAt # 0 /\ apiKey.expiresAt < now

\* a call of validateApiKey with the secret that the creation of the key returned
ValidateWithCorrectSecret ==
    /\ last.op = "validateApiKey"
    /\ Exists(apiKeys, last.target)
    /\ last.arg[1] = hist.secrets[last.target]

\* C10 as stated: validateApiKey with the correct secret fails with
\* "Insufficient permissions" whenever the permission is not among those of
\* the key, and every call with a revoked key fails with "API key has been
\* revoked".
C10_Original ==
    /\ (ValidateWithCorrectSecret /\ last.arg[2] \notin Range(apiKeys[last.target].permissions))
            => last.result = ErrPermission
    /\ (last.op = "validateApiKey" /\ Exists(apiKeys, last.target) /\ ~apiKeys[last.target].isActive)
            => last.result = ErrKeyRevoked

\* C10: validateApiKey on a key that is active and has not expired, with the
\* correct secret, fails with "Insufficient permissions" whenever the
\* permission is not among those of the key; every call with a key that is
\* revoked fails with "API key has been revoked", whatever its secret and
\* permission.
C10_PermissionAndRevocation ==
    /\ (/\ ValidateWithCorrectSecret
        /\ apiKeys[last.target].isActive
        /\ ~Expired(apiKeys[last.target])
        /\ last.arg[2] \notin Range(apiKeys[last.target].permissions))
            => last.result = ErrPermission
    /\ (last.op = "validateApiKey" /\ Exists(apiKeys, last.target) /\ ~apiKeys[last.target].isActive)
            => last.result = ErrKeyRevoked

C10_Witness ==
    /\ ValidateWithCorrectSecret
    /\ ~apiKeys[last.target].isActive
    /\ last.arg[2] \in Range(apiKeys[last.target].permissions)
    /\ last.result = ErrKeyRevoked
    /\ \E i \in DOMAIN auditLog : auditLog[i].action = "apiKey.reactivate"

(***************************************************************************)
(* The global sections of the seeded deployment.                           *)
(***************************************************************************)
NextSections ==
    \/ Idle /\ \E t \in 1..2, type \in {"header", "footer"}, isDefault \in BOOLEAN :
                  globalSections_create(t, <<102>>, type, Hero, isDefault)
    \/ Idle /\ \E t \in 1..2, g \in 1..2, content \in {Hero, Text(<<>>, Undefined), Text(<<120>>, 1)} :
                  globalSections_updateContent(t, g, content)
    \/ Idle /\ \E t \in 1..2, g \in 1..2 : deleteSection(t, g)
    \/ Settle

SpecSections == InitSeeded /\ [][NextSections]_vars

\* the default sections of a type in a workspace
DefaultsIn(sections, workspaceId, type) ==
    {g \in DOMAIN sections : /\ sections[g].workspaceId = workspaceId
                             /\ sections[g].type = type
                             /\ sections[g].isDefault}

C12_BlockOrderIsPermutation ==
    \A p \in DOMAIN pages :
        /\ Range(pages[p].blockOrder) = {b \in DOMAIN blocks : blocks[b].pageId = p}
        /\ \A i, j \in DOMAIN pages[p].blockOrder :
              pages[p].blockOrder[i] = pages[p].blockOrder[j] => i = j

\* the status transitions of a page and the mutation that makes each
StatusTransitions ==
    {<<"draft", "published", "publish">>, <<"archived", "published", "publish">>,
     <<"published", "draft", "unpublish">>,
     <<"draft", "archived", "archive">>, <<"published", "archived", "archive">>}

\* C13: a page that is created is a draft, and the status of a page changes
\* only from draft or archived to published by publish, from published to
\* draft by unpublish, and from any status to archived by archive.
C13_StatusTransitions ==
    [][/\ \A p \in DOMAIN pages' \ DOMAIN pages : pages'[p].status = "draft"
       /\ \A p \in DOMAIN pages' \cap DOMAIN pages :
             pages'[p].status # pages[p].status
                => <<pages[p].status, pages'[p].status, last'.op>> \in StatusTransitions]_vars

\* C14: no user has two sessions, and after a login of a user that succeeds
\* no token issued before it authenticates as that user.
C14_SingleSession ==
    /\ \A u \in DOMAIN users : Cardinality(SessionsByUser(u)) <= 1
    /\ (last.op = "login" /\ last.result = OK)
          => \A t \in Issued \ {last.ret.token} :
                ~(authenticateUser(t).err = OK /\ authenticateUser(t).id = last.target)

C14_Witness ==
    /\ last.op = "login"
    /\ last.result = OK
    /\ Cardinality(DOMAIN users) = 1
    /\ nextId.tokens >= 3
    /\ authenticateUser(last.ret.token).err = OK
    /\ authenticateUser(1).err = ErrInvalidSession

(***************************************************************************)
(* The sessions of the seeded deployment as the clock moves: the seeded    *)
(* users (password "p") log in, an admin deactivates and reactivates       *)
(* accounts, and privileged mutations are called with no token, with the   *)
(* tokens issued and with a token that no session holds.                   *)
(***************************************************************************)
NextSessions ==
    \/ Idle /\ \E email \in {<<97>>, <<101>>} : login(email, SeedPassword)
    \/ Idle /\ \E t \in 0..(MaxTokens + 1), u \in 1..3 : toggleUserActive(t, u)
    \/ Idle /\ \E t \in 0..(MaxTokens + 1) : publish(t, 1)
    \/ Idle /\ \E t \in 0..(MaxTokens + 1) : updateContent(t, 1, Hero)
    \/ Idle /\ Tick
    \/ Settle

SpecSessions == InitSeeded /\ [][NextSessions]_vars

\* the session that holds a token
SessionOf(token) == sessions[CHOOSE s \in SessionsByToken(token) : TRUE]

HasSession(token) == token # NoToken /\ SessionsByToken(token) # {}

SessionIsExpired(token) == HasSession(token) /\ SessionOf(token).expiresAt < now

UserIsDeactivated(token) == HasSession(token) /\ ~users[SessionOf(token).userId].isActive

\* C15 as stated: a privileged call fails as unauthenticated when no session
\* holds its token, with "Session expired" when the session has expired, with
\* "User account is inactive" when the user of the session is deactivated,
\* and in each case it changes nothing in the store.
C15_Original ==
    [][(Idle /\ last'.op \in PrivilegedCalls)
        => (/\ ~HasSession(last'.token) => last'.result \in {ErrAuthRequired, ErrInvalidSession}
            /\ SessionIsExpired(last'.token) => last'.result = ErrSessionExpired
            /\ UserIsDeactivated(last'.token) => last'.result = ErrInactive
            /\ (~HasSession(last'.token) \/ SessionIsExpired(last'.token)
                    \/ UserIsDeactivated(last'.token)) => store' = store)]_vars

\* C15: a privileged call fails as unauthenticated when no session holds its
\* token, with "Session expired" when the session has expired, with "User
\* account is inactive" when the session has not expired and its user is
\* deactivated, and in each case it changes nothing in the store.
C15_AuthenticateErrors ==
    [][(Idle /\ last'.op \in PrivilegedCalls)
        => (/\ ~HasSession(last'.token) => last'.result \in {ErrAuthRequired, ErrInvalidSession}
            /\ SessionIsExpired(last'.token) => last'.result = ErrSessionExpired
            /\ (UserIsDeactivated(last'.token) /\ ~SessionIsExpired(last'.token))
                    => last'.result = ErrInactive
            /\ (~HasSession(last'.token) \/ SessionIsExpired(last'.token)
                    \/ UserIsDeactivated(last'.token)) => store' = store)]_vars

C15_Witness ==
    /\ last.op = "publish"
    /\ last.token = 2
    /\ UserIsDeactivated(2)
    /\ ~SessionIsExpired(2)
    /\ last.result = ErrInactive
    /\ now > DayMs

\* C16: for every token that authenticates, authenticateUser returns the id,
\* the name, the email, the role and the workspace id of the user, and no
\* password hash.
C16_IdentityProjection ==
    \A t \in 1..MaxTokens :
        authenticateUser(t).err = OK
            => LET user == authenticateUser(t) IN
               /\ user.id \in DOMAIN users
               /\ user.name = users[user.id].name
               /\ user.email = users[user.id].email
               /\ user.role = users[user.id].role
               /\ "passwordHash" \notin DOMAIN user
               /\ "workspaceId" \in DOMAIN user
               /\ WorkspaceIdOf(user) = users[user.id].workspaceId

(***************************************************************************)
(* The queries of the seeded deployment: they are called with no token,    *)
(* with the tokens of the admin and of the editor, and with a token that   *)
(* no session holds, while the clock moves and the admin deactivates and   *)
(* reactivates the editor.                                                 *)
(***************************************************************************)
ReadTokens == 0..MaxTokens

NextReads ==
    \/ Idle /\ \E t \in ReadTokens : pages_listAll(t)
    \/ Idle /\ \E t \in ReadTokens, p \in 1..3 : getForEdit(t, p)
    \/ Idle /\ \E t \in ReadTokens : me(t)
    \/ Idle /\ \E t \in ReadTokens : listUsers(t)
    \/ Idle /\ \E t \in ReadTokens : getRecent(t)
    \/ Idle /\ \E t \in ReadTokens : globalSections_listAll(t)
    \/ Idle /\ \E t \in ReadTokens : apiKeys_list(t)
    \/ Idle /\ \E t \in ReadTokens : getConnectionInfo(t)
    \/ Idle /\ \E u \in 2..3 : toggleUserActive(1, u)
    \/ Idle /\ Tick
    \/ Settle

SpecReads == InitSeeded /\ [][NextReads]_vars

\* C17: pages.listAll and pages.getForEdit return to a user only pages of the
\* workspace of the user, and with getForEdit only blocks of such pages.
C17_ReadsConfinedToWorkspace ==
    /\ last.op = "listAll"
          => \A p \in last.ret : pages[p].workspaceId = WorkspaceOfCaller(last.token)
    /\ (last.op = "getForEdit" /\ last.ret.page # NoId)
          => /\ pages[last.ret.page].workspaceId = WorkspaceOfCaller(last.token)
             /\ \A i \in DOMAIN last.ret.blocks :
                   /\ Exists(pages, last.ret.blocks[i].pageId)
                   /\ pages[last.ret.blocks[i].pageId].workspaceId = WorkspaceOfCaller(last.token)

\* the mutations that change the store
StateChanging ==
    {"register", "login", "logout", "createUser", "toggleUserActive", "createPage",
     "createSection", "updateSectionContent", "deleteSection",
     "createApiKey", "revoke", "reactivate", "deleteKey"} \cup PageMutations \cup BlockMutations

\* the user that makes a call: the user registered or logged in, or the user of the token
ActorOf(call) ==
    IF call.op \in {"register", "login"} THEN call.target
    ELSE IF authenticateUser(call.token).err = OK THEN authenticateUser(call.token).id
    ELSE IF HasSession(call.token) THEN SessionOf(call.token).userId
    ELSE NoId

\* C18: a mutation that succeeds and changes a table other than the audit log
\* appends one entry to the audit log, and the entry names the user that
\* made the call, an action and a target.
C18_EveryMutationAudited ==
    [][(/\ Idle
        /\ last'.op \in StateChanging
        /\ last'.result = OK
        /\ <<users, workspaces, sessions, pages, blocks, globalSections, apiKeys>>'
              # <<users, workspaces, sessions, pages, blocks, globalSections, apiKeys>>)
       => (/\ Len(auditLog') = Len(auditLog) + 1
           /\ SubSeq(auditLog', 1, Len(auditLog)) = auditLog
           /\ auditLog'[Len(auditLog')].userId = ActorOf(last')
           /\ auditLog'[Len(auditLog')].action # ""
           /\ auditLog'[Len(auditLog')].targetId # NoId)]_vars

\* the queries behind a session token
ReadQueries ==
    {"listAll", "getForEdit", "me", "listUsers", "getRecent", "listSections", "listKeys",
     "getConnectionInfo"}

\* the roles a query admits
RolesOf(op) ==
    IF op = "me" THEN {"admin", "editor"}
    ELSE IF op \in {"listAll", "getForEdit", "listSections"} THEN {"admin", "editor"}
    ELSE {"admin"}

\* the value a query returned is null or empty
EmptyResult(call) ==
    IF call.op = "me" THEN call.result = "null"
    ELSE IF call.op = "getForEdit" THEN call.result = OK /\ call.ret = NoPage
    ELSE call.result = OK /\ call.ret = {}

\* C19: a query behind a session token returns null or an empty result, and
\* throws no error, when its token is absent, held by no session, expired,
\* of a deactivated user, or of a user without the role the query requires.
C19_ReadsDegrade ==
    (last.op \in ReadQueries /\ RoleOf(last.token) \notin RolesOf(last.op)) => EmptyResult(last)

\* a user record holds the normalized form of an email
EmailHeld(email) == \E u \in DOMAIN users : users[u].email = NormalizeEmail(email)

C21_EditorNeverChangesSlug ==
    [][(Idle /\ last'.op = "updateMeta" /\ RoleOf(last'.token) = "editor")
          => \/ last'.result # OK
             \/ pages'[last'.target].slug = pages[last'.target].slug]_vars

\* C22: the slug of every page matches ^[a-z0-9]+(-[a-z0-9]+)*$, and a
\* createPage or an updateMeta that is given a slug that does not match is
\* rejected and leaves the store unchanged.
C22_SlugFormat ==
    [][/\ \A p \in DOMAIN pages' : SlugFormatOk(pages'[p].slug)
       /\ (Idle /\ last'.op \in {"createPage", "updateMeta"}
                /\ last'.arg # NoString /\ ~SlugFormatOk(last'.arg))
             => (last'.result # OK /\ store' = store)]_vars

\* the duplicate of block b is block n, placed after b in the order of its page
DuplicatedAfter(b, n) ==
    LET pg == blocks[b].pageId
        old == pages[pg].blockOrder
        new == pages'[pg].blockOrder
        i == IndexOf(old, b) + 1
    IN
    /\ n \notin DOMAIN blocks
    /\ DOMAIN blocks' = DOMAIN blocks \cup {n}
    /\ \A x \in DOMAIN blocks : blocks'[x] = blocks[x]
    /\ blocks'[n].content = blocks[b].content
    /\ blocks'[n].layout = blocks[b].layout
    /\ blocks'[n].isStructureLocked = FALSE
    /\ Len(new) = Len(old) + 1
    /\ new[i + 1] = n
    /\ SubSeq(new, 1, i) = SubSeq(old, 1, i)
    /\ SubSeq(new, i + 2, Len(new)) = SubSeq(old, i + 1, Len(old))

NextRace ==
    \/ \E i \in Invocations, t \in 0..2, slug \in {SlugA, SlugC, SlugUpper} : create_start(i, t, slug)
    \/ \E i \in Invocations : create_step(i)
    \/ \E i \in Invocations : create_return(i)

SpecRace == InitSeeded /\ [][NextRace]_vars

\* both invocations have returned, they were made by admins of one workspace
\* for one well-formed slug that no earlier page holds, and the lookup of
\* neither found a page
RacedOnFreeSlug ==
    /\ \A i \in Invocations : calls[i].pc = "done" /\ RoleOf(calls[i].token) = "admin"
    /\ calls[1].slug = calls[2].slug
    /\ WorkspaceOfCaller(calls[1].token) = WorkspaceOfCaller(calls[2].token)
    /\ SlugFormatOk(calls[1].slug)
    /\ PagesBySlug(calls[1].slug) \subseteq {calls[i].ret : i \in Invocations}
    /\ \A i \in Invocations : calls[i].result \notin {ErrSlugExists, ErrStoreUnique}

NextLogin ==
    \/ Idle /\ \E email \in {<<97>>, <<101>>}, password \in Passwords : login(email, password)
    \/ Idle /\ \E t \in Tokens : logout(t)
    \/ Idle /\ \E t \in Tokens : me(t)
    \/ Idle /\ \E u \in 2..3 : toggleUserActive(1, u)
    \/ Settle

SpecLogin == InitSeeded /\ [][NextLogin]_vars

\* C27: a login succeeds only with the very password the account was created
\* with: a password that differs from it is refused, its simpleHash being
\* another string than the stored hash.
C27_LoginOnlyWithOwnPassword ==
    [][(Idle /\ last'.op = "login" /\ last'.result = OK) => last'.arg[2] = SeedPassword]_vars

\* C28: the body of every text block that carries a maxLength is at most
\* that maxLength long.
C28_BodyWithinMaxLength ==
    \A b \in DOMAIN blocks :
        (blocks[b].content.type = "text" /\ blocks[b].content.maxLength # Undefined)
            => Len(blocks[b].content.body) <= blocks[b].content.maxLength

(***************************************************************************)
(* The reads of an external frontend that holds an API key.                *)
(***************************************************************************)
NextApi ==
    \/ Idle /\ \E t \in 1..2, secret \in Secrets, permissions \in {NoPermissions, <<"blocks:read">>} :
                  apiKeys_create(t, secret, permissions, Undefined)
    \/ Idle /\ \E t \in 1..2, k \in 1..MaxKeys : revoke(t, k)
    \/ Idle /\ \E t \in 1..2, p \in 1..2 : publish(t, p)
    \/ Idle /\ \E k \in 1..MaxKeys, secret \in Secrets, slug \in {SlugA, SlugB, SlugC} :
                  getBySlugWithApiKey(slug, k, secret)
    \/ Idle /\ \E k \in 1..MaxKeys, secret \in Secrets : listPublishedWithApiKey(k, secret)
    \/ Idle /\ \E k \in 1..MaxKeys, secret \in Secrets, w \in 1..3 : getWithApiKey(k, secret, w, "general")
    \/ Settle

SpecApi == InitSeeded /\ [][NextApi]_vars

\* the workspace of the user that created the key
WorkspaceOfKey(key) == users[apiKeys[CHOOSE k \in KeysByKey(key) : TRUE].createdBy].workspaceId

\* C29: a read with a valid API key returns only content of the workspace
\* the key was created in: the page and the blocks of getBySlugWithApiKey, the
\* pages of listPublishedWithApiKey and the settings of getWithApiKey belong
\* to that workspace, whatever slug or workspaceId the caller passes.
C29_ApiKeyReadsConfinedToWorkspace ==
    /\ (last.op = "getBySlugWithApiKey" /\ last.result = OK /\ last.ret.page # NoId)
          => pages[last.ret.page].workspaceId = WorkspaceOfKey(last.target)
    /\ (last.op = "listPublishedWithApiKey" /\ last.result = OK)
          => \A p \in last.ret : pages[p].workspaceId = WorkspaceOfKey(last.target)
    /\ (last.op = "getWithApiKey" /\ last.result = OK /\ last.ret # NoId)
          => siteSettings[last.ret].workspaceId = WorkspaceOfKey(last.target)

\* C30: an updateContent on block b that succeeds stores the given content in
\* b, sets b's updatedBy and appends one audit record: the layout, the lock
\* and the pageId of b, every other block and every page are as they were.
C30_UpdateContentFrame ==
    [][(Idle /\ last'.op = "updateContent" /\ last'.result = OK)
          => /\ DOMAIN blocks' = DOMAIN blocks
             /\ \A x \in DOMAIN blocks \ {last'.target} : blocks'[x] = blocks[x]
             /\ blocks'[last'.target] =
                    [blocks[last'.target] EXCEPT !.content = last'.arg,
                                                 !.updatedBy = authenticateUser(last'.token).id]
             /\ pages' = pages
             /\ Len(auditLog') = Len(auditLog) + 1
             /\ SubSeq(auditLog', 1, Len(auditLog)) = auditLog
             /\ auditLog'[Len(auditLog')].targetId = last'.target]_vars

\* the editor has changed the content of the seeded text block
C30_Witness ==
    /\ last.op = "updateContent"
    /\ last.result = OK
    /\ RoleOf(last.token) = "editor"
    /\ last.target = 2
    /\ blocks[2].content = last.arg
    /\ blocks[2].content # Text(<<120>>, 1)
    /\ blocks[2].updatedBy = 2
    /\ auditLog # <<>>

====
